---- MODULE Spec2Model ----
(***************************************************************************)
(* Arithmetic Sequence Generator (src/app.py).                             *)
(*                                                                         *)
(* One interaction is one run of main(): the three number_input widgets    *)
(* are read, num_terms is validated, generate_arithmetic_sequence is       *)
(* called and its result is rendered.  The generator's loop is modelled    *)
(* one iteration per step; everything main() does after the generator      *)
(* returns is part of the step in which it returns.                        *)
(*                                                                         *)
(* Numbers: first_term and common_difference are Python floats.  The model *)
(* draws them from the floats with an integral value, on which float       *)
(* addition and multiplication are exact (all values stay far below 2^53), *)
(* so they are modelled as integers.  The rendering f"{x:g}" is modelled   *)
(* by what it prints: six significant digits, rounded half to even.        *)
(*                                                                         *)
(* Page: the rendered page is the sequence of the st.* elements main()     *)
(* emits that carry the sequence (error, code, write, text, metric,        *)
(* download_button).  A ", ".join(...) is kept as the list of the joined   *)
(* items.  The static chrome (title, headers, formula, the closing         *)
(* markdown) carries no computed sequence data and is left out.            *)
(*                                                                         *)
(* The except branch of main() is not modelled: float arithmetic, slicing  *)
(* and formatting raise nothing on the values main() passes.               *)
(***************************************************************************)
EXTENDS Integers, Sequences, FiniteSets, TLC

VARIABLES
    pc,                 \* "idle": no run yet; "generating": inside the generator's loop; "done": main() returned
    first_term,         \* value of the "First Term" widget in the current run
    common_difference,  \* value of the "Common Difference" widget in the current run
    num_terms,          \* value of the "Number of Terms" widget in the current run
    i,                  \* the generator's loop index (next value of range(num_terms))
    sequence,           \* the generator's list; after its return, main()'s `sequence`
    invocations,        \* how many times the current run entered the generator
    page,               \* elements rendered by the current run, in order
    earlier             \* history: arguments and result of one generator call, and
                        \* the number of generator calls entered since it returned

vars == <<pc, first_term, common_difference, num_terms, i, sequence,
          invocations, page, earlier>>

-----------------------------------------------------------------------------
(* Bounds of the model *)

\* first_term ranges over -MaxAbsFirst..MaxAbsFirst and a few chosen values
MaxAbsFirst == 1

\* common_difference ranges over -MaxAbsDiff..MaxAbsDiff
MaxAbsDiff == 2

\* num_terms ranges over 0..MaxSmallCount and the counts around each threshold
MaxSmallCount == 12

\* in the replay specification num_terms ranges over 1..MaxReplayCount
MaxReplayCount == 3

\* the history counts the generator calls made since the call it keeps, up to MaxSince
MaxSince == 2

-----------------------------------------------------------------------------
(* Program constants *)

\* number_input max_value and the limit of the validation
MaxTerms == 1000

\* `len(sequence) <= 50`: the sequence is displayed inline
InlineLimit == 50

\* sequence[:10] and sequence[-10:]
EdgeCount == 10

\* `len(sequence) > 20`: the guard of the last-10 line
LastGuard == 20

\* chunk_size = 20
chunk_size == 20

\* `len(sequence) > 10`: the download is offered
DownloadLimit == 10

\* f"{x:g}": the default precision of the general format
GPrecision == 6

-----------------------------------------------------------------------------
(* Python helpers *)

Min(a, b) == IF a < b THEN a ELSE b
Max(a, b) == IF a > b THEN a ELSE b
Abs(x) == IF x < 0 THEN -x ELSE x

\* s[lo:hi] for 0 <= lo
PySlice(s, lo, hi) == SubSeq(s, lo + 1, Min(hi, Len(s)))

\* s[-k:]
PyTail(s, k) == SubSeq(s, Max(Len(s) - k, 0) + 1, Len(s))

\* sum(s[lo..hi]); integer addition, so the grouping does not change the result
RECURSIVE SumRange(_, _, _)
SumRange(s, lo, hi) ==
    IF lo > hi THEN 0
    ELSE IF lo = hi THEN s[lo]
    ELSE LET mid == (lo + hi) \div 2
         IN  SumRange(s, lo, mid) + SumRange(s, mid + 1, hi)

\* sum(s)
PySum(s) == SumRange(s, 1, Len(s))

\* number of decimal digits of a >= 0
RECURSIVE NumDigits(_)
NumDigits(a) == IF a < 10 THEN 1 ELSE 1 + NumDigits(a \div 10)

\* f of width w, zero-padded on the left
RECURSIVE ZeroPad(_, _)
ZeroPad(f, w) == IF NumDigits(f) >= w THEN ToString(f) ELSE "0" \o ZeroPad(f, w - 1)

\* the fraction digits f (of width w) with trailing zeros removed
RECURSIVE FracText(_, _)
FracText(f, w) == IF f % 10 = 0 THEN FracText(f \div 10, w - 1) ELSE ZeroPad(f, w)

\* f"{x:g}" for a float x with an integral value: what it prints (text) and
\* the number that text denotes (reads).  Fewer than GPrecision+1 digits: the
\* integer itself.  Otherwise scientific notation, the mantissa rounded to
\* GPrecision significant digits (half to even), trailing zeros removed, the
\* exponent with a sign and at least two digits.
FmtG(x) ==
    LET a == Abs(x)
        X == NumDigits(a) - 1
    IN  IF X < GPrecision
        THEN [text |-> ToString(x), reads |-> x]
        ELSE LET unit == 10 ^ (X - (GPrecision - 1))
                 q0 == a \div unit
                 r == a % unit
                 up == (2 * r > unit) \/ (2 * r = unit /\ q0 % 2 = 1)
                 q1 == IF up THEN q0 + 1 ELSE q0
                 carry == q1 = 10 ^ GPrecision
                 q == IF carry THEN q1 \div 10 ELSE q1
                 E == IF carry THEN X + 1 ELSE X
                 lead == q \div (10 ^ (GPrecision - 1))
                 frac == q % (10 ^ (GPrecision - 1))
                 sign == IF x < 0 THEN "-" ELSE ""
                 mant == IF frac = 0 THEN ToString(lead)
                         ELSE ToString(lead) \o "." \o FracText(frac, GPrecision - 1)
                 expo == IF E < 10 THEN "0" \o ToString(E) ELSE ToString(E)
                 val == q * (10 ^ (E - (GPrecision - 1)))
             IN  [text |-> sign \o mant \o "e+" \o expo,
                  reads |-> IF x < 0 THEN -val ELSE val]

\* [f"{term:g}" for term in s]
FmtAll(s) == [k \in 1..Len(s) |-> FmtG(s[k])]

\* f"{x}" for a float x with an integral value: str(x)
PyStrFloat(x) == ToString(x) \o ".0"

-----------------------------------------------------------------------------
(* Inputs *)

\* first_term: small values of either sign, and values of six and seven digits
\* (where the six significant digits of the general format start to matter)
FirstTerms == (-MaxAbsFirst..MaxAbsFirst) \cup {5, 999999, 1234567}
Differences == -MaxAbsDiff..MaxAbsDiff
\* num_terms: the small counts and the counts around each threshold of main().
\* The widget is declared with min_value=1 and max_value=1000; -1, 0 and 1001
\* are values main() itself guards against, and are drawn to reach those guards.
SmallCounts ==
    (-1..MaxSmallCount)
        \cup {LastGuard, LastGuard + 1, 45, InlineLimit, InlineLimit + 1, 55,
              3 * chunk_size, 3 * chunk_size + 1}

\* the runs explored: every small count with every value, and the counts at
\* the validation limit with the widgets' default values
Requests ==
    (FirstTerms \X Differences \X SmallCounts)
        \cup ({1} \X {1} \X {MaxTerms - 1, MaxTerms, MaxTerms + 1})

ReplayRequests == {1, 5} \X {-2, 1} \X (1..MaxReplayCount)

-----------------------------------------------------------------------------
(* Page elements *)

\* one st.* call: its kind, its fixed text, and the items it shows
Element(kind, label, items) == [kind |-> kind, label |-> label, items |-> items]

ErrNotPositive == "Number of terms must be a positive integer."
ErrTooMany == "Number of terms cannot exceed 1000 for performance reasons."

-----------------------------------------------------------------------------
(* generate_arithmetic_sequence *)

\* faulty variant of FreshList: the list of the previous call is reused
\* (as with a mutable default argument)
StaleList == sequence

\* sequence = []
FreshList == << >>

\* faulty variant of Term: the index counted from 1
TermOffByOne(ft, cd, k) == ft + ((k + 1) * cd)

\* term = first_term + (i * common_difference)
Term(ft, cd, k) == ft + (k * cd)

\* for i in range(num_terms): the first index
RangeStart == 0

\* faulty variant of RangeHasNext: one iteration too many
RangeHasNextInclusive(k, n) == k <= n

\* for i in range(num_terms): the loop goes on while i < num_terms
RangeHasNext(k, n) == k < n

-----------------------------------------------------------------------------
(* main: validation *)

\* if num_terms <= 0
NotPositive(n) == n <= 0

\* faulty variant of TooMany: the limit itself is rejected
TooManyAtLimit(n) == n >= MaxTerms

\* if num_terms > 1000
TooMany(n) == n > MaxTerms

-----------------------------------------------------------------------------
(* main: rendering *)

\* faulty variant of ShowInline: a sequence of exactly 50 terms is not inline
ShowInlineStrict(s) == Len(s) < InlineLimit

\* faulty variant of ShowInline: the limit mistyped as 5
ShowInlineTypo(s) == Len(s) <= InlineLimit \div 10

\* if len(sequence) <= 50
ShowInline(s) == Len(s) <= InlineLimit

\* if len(sequence) > 20
ShowLast(s) == Len(s) > LastGuard

\* faulty variant of OfferDownload: offered for exactly 10 terms too
OfferDownloadAtLimit(s) == Len(s) >= DownloadLimit

\* if len(sequence) > 10
OfferDownload(s) == Len(s) > DownloadLimit

\* st.code(", ".join([f"{term:g}" for term in sequence]))
InlineElement(s) == Element("code", "", FmtAll(s))

\* st.write(f"**First 10 terms:** {...sequence[:10]}")
FirstElement(s) == Element("write", "**First 10 terms:** ", FmtAll(PySlice(s, 0, EdgeCount)))

\* st.write(f"**Last 10 terms:** {...sequence[-10:]}")
LastElement(s) == Element("write", "**Last 10 terms:** ", FmtAll(PyTail(s, EdgeCount)))

\* faulty variant of Chunk: the slice ends one element early
ChunkShort(s, k) == PySlice(s, k, k + chunk_size - 1)

\* chunk = sequence[i:i+chunk_size]
Chunk(s, k) == PySlice(s, k, k + chunk_size)

\* faulty variant of ChunkLabel: the first index is not made 1-based
ChunkLabelZeroBased(s, k) ==
    "Terms " \o ToString(k) \o "-" \o ToString(Min(k + chunk_size, Len(s))) \o ": "

\* f"Terms {i+1}-{min(i+chunk_size, len(sequence))}: "
ChunkLabel(s, k) ==
    "Terms " \o ToString(k + 1) \o "-" \o ToString(Min(k + chunk_size, Len(s))) \o ": "

\* for i in range(0, len(sequence), chunk_size): st.text(...)
RECURSIVE ChunkLoop(_, _)
ChunkLoop(s, k) ==
    IF k < Len(s)
    THEN <<Element("text", ChunkLabel(s, k), FmtAll(Chunk(s, k)))>>
             \o ChunkLoop(s, k + chunk_size)
    ELSE << >>

\* the display of the sequence: inline, or first/last lines and the chunks
SequenceElements(s) ==
    IF ShowInline(s)
    THEN <<InlineElement(s)>>
    ELSE <<FirstElement(s)>>
             \o (IF ShowLast(s) THEN <<LastElement(s)>> ELSE << >>)
             \o ChunkLoop(s, 0)

\* st.metric("Sum of all terms", f"{sum(sequence):g}")
SumElement(s) == Element("metric", "Sum of all terms", <<FmtG(PySum(s))>>)

\* st.metric("Last term", ...): sequence[-1] if len(sequence) > 1 else sequence[0]
LastTermOf(s) == IF Len(s) > 1 THEN s[Len(s)] ELSE s[1]
LastTermElement(s) == Element("metric", "Last term", <<FmtG(LastTermOf(s))>>)

\* "\n".join([f"Term {i+1}: {term:g}" for i, term in enumerate(sequence)])
ExportLine(k, term) == "Term " \o ToString(k + 1) \o ": " \o FmtG(term).text
ExportText(s) == [n \in 1..Len(s) |-> ExportLine(n - 1, s[n])]

\* file_name=f"arithmetic_sequence_{first_term}_{common_difference}_{num_terms}.txt"
FileName(ft, cd, n) ==
    "arithmetic_sequence_" \o PyStrFloat(ft) \o "_" \o PyStrFloat(cd)
        \o "_" \o ToString(n) \o ".txt"

\* st.download_button(data=sequence_text, file_name=...)
DownloadElements(s, ft, cd, n) ==
    IF OfferDownload(s)
    THEN <<Element("download_button", FileName(ft, cd, n), ExportText(s))>>
    ELSE << >>

\* everything main() renders once the generator has returned s
Render(s, ft, cd, n) ==
    SequenceElements(s) \o <<SumElement(s), LastTermElement(s)>>
        \o DownloadElements(s, ft, cd, n)

-----------------------------------------------------------------------------
(* State machine *)

NoCall == [args |-> << >>, result |-> << >>, since |-> 0]

\* the history once one more generator call is entered
OneCallLater(h) ==
    IF h = NoCall THEN h ELSE [h EXCEPT !.since = Min(@ + 1, MaxSince)]

Init ==
    /\ pc = "idle"
    /\ first_term = 1
    /\ common_difference = 1
    /\ num_terms = 10
    /\ i = 0
    /\ sequence = << >>
    /\ invocations = 0
    /\ page = << >>
    /\ earlier = NoCall

\* A run of main() starts: the widgets are read and num_terms is validated.
\* An invalid num_terms ends the run with the error; otherwise the generator
\* is entered.
MainStart(ft, cd, n) ==
    /\ pc \in {"idle", "done"}
    /\ first_term' = ft
    /\ common_difference' = cd
    /\ num_terms' = n
    /\ i' = RangeStart
    /\ IF NotPositive(n)
       THEN /\ page' = <<Element("error", ErrNotPositive, << >>)>>
            /\ pc' = "done"
            /\ invocations' = 0
            /\ sequence' = << >>
            /\ UNCHANGED earlier
       ELSE IF TooMany(n)
       THEN /\ page' = <<Element("error", ErrTooMany, << >>)>>
            /\ pc' = "done"
            /\ invocations' = 0
            /\ sequence' = << >>
            /\ UNCHANGED earlier
       ELSE /\ page' = << >>
            /\ pc' = "generating"
            /\ invocations' = 1
            /\ sequence' = FreshList
            /\ earlier' = OneCallLater(earlier)

\* One iteration of the generator's loop.
GenStep ==
    /\ pc = "generating"
    /\ RangeHasNext(i, num_terms)
    /\ sequence' = Append(sequence, Term(first_term, common_difference, i))
    /\ i' = i + 1
    /\ UNCHANGED <<pc, first_term, common_difference, num_terms, invocations,
                   page, earlier>>

\* The loop is over: the generator returns and main() renders the result.
\* With `remember` the call is kept as the earlier call of the history.
GenReturn(remember) ==
    /\ pc = "generating"
    /\ ~RangeHasNext(i, num_terms)
    /\ page' = Render(sequence, first_term, common_difference, num_terms)
    /\ pc' = "done"
    /\ earlier' = IF remember
                  THEN [args |-> <<first_term, common_difference, num_terms>>,
                        result |-> sequence, since |-> 0]
                  ELSE earlier
    /\ UNCHANGED <<first_term, common_difference, num_terms, i, sequence,
                   invocations>>

Next ==
    \/ \E r \in Requests : MainStart(r[1], r[2], r[3])
    \/ GenStep
    \/ GenReturn(FALSE)

Spec == Init /\ [][Next]_vars

\* Runs over a small set of requests, with one earlier generator call kept
NextReplay ==
    \/ \E r \in ReplayRequests : MainStart(r[1], r[2], r[3])
    \/ GenStep
    \/ \E remember \in BOOLEAN : GenReturn(remember)

SpecReplay == Init /\ [][NextReplay]_vars

-----------------------------------------------------------------------------
(* Views of the state used by the properties *)

\* the generator was called in the current run and has returned
Returned == pc = "done" /\ invocations > 0

\* the rendered elements of one kind, in order
OfKind(kind) == SelectSeq(page, LAMBDA e : e.kind = kind)

\* the rendered elements of one kind with one label
Labelled(kind, label) == SelectSeq(page, LAMBDA e : e.kind = kind /\ e.label = label)

InlineShown == OfKind("code")
FirstShown == Labelled("write", "**First 10 terms:** ")
LastShown == Labelled("write", "**Last 10 terms:** ")
ChunksShown == OfKind("text")
SumShown == Labelled("metric", "Sum of all terms")
LastTermShown == Labelled("metric", "Last term")
DownloadShown == OfKind("download_button")
ErrorsShown == OfKind("error")

ValidCount(n) == n \in 1..MaxTerms

\* the sizes and the labels of the chunks shown
ChunkSizes == [k \in 1..Len(ChunksShown) |-> Len(ChunksShown[k].items)]
ChunkLabels == [k \in 1..Len(ChunksShown) |-> ChunksShown[k].label]

-----------------------------------------------------------------------------
(* Properties *)

\* C1: for every valid request, every index k with 0 <= k < num_terms of the
\* sequence returned by generate_arithmetic_sequence holds
\* first_term + k * common_difference.
C1_ClosedForm ==
    (Returned /\ ValidCount(num_terms)) =>
        \A k \in 0..(num_terms - 1) :
            /\ k + 1 \in DOMAIN sequence
            /\ sequence[k + 1] = first_term + k * common_difference

\* C1 witness: the request (5, -2, 5) has returned [5, 3, 1, -1, -3]
C1_Witness ==
    /\ Returned
    /\ <<first_term, common_difference, num_terms>> = <<5, -2, 5>>
    /\ sequence = <<5, 3, 1, -1, -3>>

\* C2: the returned sequence has exactly num_terms elements: every iteration
\* of the loop has appended exactly one term (the list is as long as the
\* number of iterations done) and the loop ends after num_terms iterations.
C2_LengthIsNumTerms ==
    /\ pc = "generating" => (Len(sequence) = i /\ i <= num_terms)
    /\ Returned => (Len(sequence) = num_terms /\ i = num_terms)

\* C2 witness: a call for the largest valid count has returned MaxTerms terms
C2_Witness ==
    /\ Returned
    /\ num_terms = MaxTerms
    /\ Len(sequence) = MaxTerms

\* C3: a num_terms outside [1, 1000] ends the run with one validation error,
\* the generator not invoked and nothing else rendered; a num_terms inside
\* [1, 1000] shows no validation error and the generator is invoked.
C3_Validation ==
    /\ pc = "generating" => ValidCount(num_terms)
    /\ pc = "done" =>
           IF ValidCount(num_terms)
           THEN /\ ErrorsShown = << >>
                /\ invocations = 1
                /\ page # << >>
           ELSE /\ Len(page) = 1
                /\ page[1].kind = "error"
                /\ page[1].label = (IF num_terms <= 0 THEN ErrNotPositive ELSE ErrTooMany)
                /\ invocations = 0
                /\ sequence = << >>

\* C3 witness: the run for 1001 terms ended with the too-many error
C3_Witness ==
    /\ pc = "done"
    /\ num_terms = MaxTerms + 1
    /\ page = <<Element("error", ErrTooMany, << >>)>>
    /\ invocations = 0

\* C4 as stated: for num_terms = 45 the presentation produces 3 chunks of
\* sizes [20, 20, 5], labelled "Terms 1-20", "Terms 21-40", "Terms 41-45".
C4_Original ==
    (Returned /\ num_terms = 45) =>
        /\ ChunkSizes = <<20, 20, 5>>
        /\ ChunkLabels = <<"Terms 1-20: ", "Terms 21-40: ", "Terms 41-45: ">>

\* C4 amended: for num_terms = 45 the sequence is shown inline and no chunk
\* is produced (chunks are produced only above 50 terms); for num_terms = 55
\* the presentation produces 3 chunks of sizes [20, 20, 15], labelled
\* "Terms 1-20", "Terms 21-40", "Terms 41-55".
C4_Amended ==
    /\ (Returned /\ num_terms = 45) =>
           /\ ChunksShown = << >>
           /\ Len(InlineShown) = 1
           /\ Len(InlineShown[1].items) = 45
    /\ (Returned /\ num_terms = 55) =>
           /\ ChunkSizes = <<20, 20, 15>>
           /\ ChunkLabels = <<"Terms 1-20: ", "Terms 21-40: ", "Terms 41-55: ">>

\* C4 witness: the run for 55 terms has rendered three chunks
C4_Witness ==
    /\ Returned
    /\ num_terms = 55
    /\ Len(ChunksShown) = 3

\* C5: the display mode depends on the length alone.  Up to 50 terms: one
\* inline line holding the rendering of every term in order, and no first-10,
\* last-10 or chunk element.  Above 50 terms: a first-10 line with the
\* renderings of the first 10 terms, a last-10 line with those of the last
\* 10 terms, the chunked view, and no inline line.
C5_DisplayMode ==
    Returned =>
        LET n == Len(sequence)
        IN  IF n <= 50
            THEN /\ Len(InlineShown) = 1
                 /\ Len(InlineShown[1].items) = n
                 /\ \A k \in 1..n : InlineShown[1].items[k] = FmtG(sequence[k])
                 /\ FirstShown = << >>
                 /\ LastShown = << >>
                 /\ ChunksShown = << >>
            ELSE /\ InlineShown = << >>
                 /\ Len(FirstShown) = 1
                 /\ Len(FirstShown[1].items) = 10
                 /\ \A k \in 1..10 : FirstShown[1].items[k] = FmtG(sequence[k])
                 /\ Len(LastShown) = 1
                 /\ Len(LastShown[1].items) = 10
                 /\ \A k \in 1..10 : LastShown[1].items[k] = FmtG(sequence[n - 10 + k])
                 /\ ChunksShown # << >>

\* C5 witness: a run for 51 terms rendered the first-10 and last-10 lines
C5_Witness ==
    /\ Returned
    /\ num_terms = 51
    /\ Len(FirstShown) = 1
    /\ Len(LastShown) = 1
    /\ InlineShown = << >>

\* C6 as stated: the displayed sum equals the sum of all elements and the
\* displayed last term equals the element at index num_terms-1; for
\* num_terms = 1 the sequence is [first_term] and the last element is the
\* first; (1, 1, 10) gives sum 55 and last 10; (5, -2, 5) gives
\* [5, 3, 1, -1, -3], sum 5 and last -3.
C6_Original ==
    (Returned /\ ValidCount(num_terms) /\ Len(sequence) = num_terms) =>
        /\ Len(SumShown) = 1
        /\ SumShown[1].items[1].reads = PySum(sequence)
        /\ Len(LastTermShown) = 1
        /\ LastTermShown[1].items[1].reads = sequence[num_terms]
        /\ num_terms = 1 =>
               /\ sequence = <<first_term>>
               /\ LastTermShown[1].items[1].reads = sequence[1]
        /\ <<first_term, common_difference, num_terms>> = <<1, 1, 10>> =>
               /\ SumShown[1].items[1].text = "55"
               /\ LastTermShown[1].items[1].text = "10"
        /\ <<first_term, common_difference, num_terms>> = <<5, -2, 5>> =>
               /\ sequence = <<5, 3, 1, -1, -3>>
               /\ SumShown[1].items[1].text = "5"
               /\ LastTermShown[1].items[1].text = "-3"

\* C7: the download is offered exactly when the sequence has more than 10
\* terms; its text then has num_terms lines, and line n is "Term n: "
\* followed by the rendering of sequence[n-1].
C7_Download ==
    Returned =>
        /\ (DownloadShown # << >>) <=> (Len(sequence) > 10)
        /\ Len(DownloadShown) <= 1
        /\ DownloadShown # << >> =>
               LET lines == DownloadShown[1].items
               IN  /\ Len(lines) = num_terms
                   /\ \A n \in 1..num_terms :
                          /\ n \in DOMAIN sequence
                          /\ lines[n] = "Term " \o ToString(n) \o ": "
                                            \o FmtG(sequence[n]).text

\* C7 witness: the run for 11 terms offers an export of 11 lines
C7_Witness ==
    /\ Returned
    /\ num_terms = 11
    /\ Len(DownloadShown) = 1
    /\ Len(DownloadShown[1].items) = 11

\* C8: two calls of the generator with the same arguments return the same
\* sequence, whatever calls were made before or between them.
C8_SameArgsSameResult ==
    (Returned /\ earlier # NoCall
        /\ earlier.args = <<first_term, common_difference, num_terms>>) =>
        earlier.result = sequence

\* C8 witness: a call has returned whose arguments are those of an earlier
\* call, with another call made between the two
C8_Witness ==
    /\ Returned
    /\ earlier # NoCall
    /\ earlier.since = MaxSince
    /\ earlier.args = <<first_term, common_difference, num_terms>>
    /\ earlier.result = sequence
    /\ Len(sequence) > 1

\* C9: the chunks shown partition the sequence of length n: there are
\* ceil(n/20) of them, chunk k (0-based) holds the renderings of the elements
\* 20k .. min(20k+20, n)-1 in order, every chunk has 20 elements but possibly
\* the last, which has 1 to 20, the chunks put together are the whole
\* sequence, and chunk k is labelled "Terms 20k+1-min(20k+20, n)".
C9_ChunksPartition ==
    (Returned /\ ChunksShown # << >>) =>
        LET n == Len(sequence)
            c == Len(ChunksShown)
        IN  /\ n = num_terms
            /\ c = (n + 19) \div 20
            /\ \A k \in 0..(c - 1) :
                   LET e == ChunksShown[k + 1]
                       hi == IF 20 * k + 20 < n THEN 20 * k + 20 ELSE n
                   IN  /\ Len(e.items) = hi - 20 * k
                       /\ \A j \in 1..Len(e.items) :
                              e.items[j] = FmtG(sequence[20 * k + j])
                       /\ k < c - 1 => Len(e.items) = 20
                       /\ k = c - 1 => Len(e.items) \in 1..20
                       /\ e.label = "Terms " \o ToString(20 * k + 1) \o "-"
                                        \o ToString(hi) \o ": "

\* C9 witness: the run for 61 terms rendered four chunks, the last of one term
C9_Witness ==
    /\ Returned
    /\ num_terms = 61
    /\ Len(ChunksShown) = 4
    /\ Len(ChunksShown[4].items) = 1

\* C10: wherever the first-10 line is rendered the sequence has more than 20
\* terms, so the last-10 line is rendered too, and the two lines show
\* disjoint index ranges of the sequence.
C10_FirstImpliesLast ==
    (Returned /\ FirstShown # << >>) =>
        /\ Len(sequence) > 20
        /\ Len(LastShown) = 1
        /\ Len(FirstShown[1].items) < Len(sequence) - Len(LastShown[1].items) + 1

\* C10 witness: a run for the shortest non-inline sequence shows both lines
C10_Witness ==
    /\ Returned
    /\ Len(sequence) = InlineLimit + 1
    /\ FirstShown # << >>
    /\ LastShown # << >>

====
